---- MODULE Spec2Model ----
(***************************************************************************)
(* A model of src/Polynome.py: the class Polynome2D (a sparse polynomial   *)
(* in x and y with a per-variable maximal degree) and the module-level     *)
(* usage example that runs when the module is loaded.                      *)
(*                                                                         *)
(* Python objects are modelled with their identity: a Polynome2D object is *)
(* a record [coefficients |-> <list id>, degree |-> n] and the list it     *)
(* refers to lives in `heap`, so that a shared or mutated list is visible. *)
(* A term is the Python tuple (coef, (deg_x, deg_y)), here                 *)
(* <<coef, <<deg_x, deg_y>>>>.  Numbers are exact rationals n / d         *)
(* (Python computes x ** -1 and a / b in floating point; the model keeps   *)
(* the exact value the float approximates).                                *)
(***************************************************************************)
EXTENDS Integers, Sequences, FiniteSets, TLC

VARIABLES
    heap,               \* list id -> the terms of that Python list
    reg,                \* name -> the Polynome2D object bound to it
    last,               \* the last call: what was called, on what, what came back
    made,               \* result name -> <<op, a, b>>, the call that made its object
    pc,                 \* where the module-level code stands
    integral_result_x,  \* module global
    integral_result_y   \* module global

vars == <<heap, reg, last, made, pc, integral_result_x, integral_result_y>>

\* ---------------------------------------------------------------- bounds

\* Coefficients handed to the constructor range over -MaxCoef..MaxCoef.
MaxCoef == 1
\* Exponent pairs handed to the constructor have |deg_x| + |deg_y| <= MaxNorm.
MaxNorm == 1
\* Degrees handed to the constructor range over 0..MaxDegree.
MaxDegree == 1
\* Lists handed to the constructor hold at most MaxLen terms.
MaxLen == 2
\* Evaluation points range over -MaxPoint..MaxPoint, integration bounds over
\* 0..MaxPoint.
MaxPoint == 1

\* ------------------------------------------------------------- numbers

Abs(n) == IF n < 0 THEN -n ELSE n

RECURSIVE GCD(_, _)
GCD(a, b) == IF b = 0 THEN a ELSE GCD(b, a % b)

\* A value is a record: the rational n/d in lowest terms with d > 0, or what
\* the computation ended with instead of a number.
Rat(n, d) ==
    LET g == GCD(Abs(n), Abs(d))
        s == IF d < 0 THEN -1 ELSE 1
    IN  [kind |-> "num", n |-> (s * n) \div g, d |-> (s * d) \div g]

\* Python's ZeroDivisionError, raised by 0 ** -k and by b / 0.
ZeroDivisionError == [kind |-> "ZeroDivisionError", n |-> 0, d |-> 1]

\* The value of np.log at a rational other than 1: no rational number.
Transcendental == [kind |-> "Transcendental", n |-> 0, d |-> 1]

\* No value: a term an integral skips.
Skipped == [kind |-> "Skipped", n |-> 0, d |-> 1]

IsNum(v) == v.kind = "num"

Int2Rat(n) == Rat(n, 1)

\* a + b, a - b, a * b, a / b on values; a raised exception propagates.
NumAdd(a, b) ==
    IF ~IsNum(a) THEN a ELSE IF ~IsNum(b) THEN b
    ELSE Rat(a.n * b.d + b.n * a.d, a.d * b.d)

NumNeg(a) == IF ~IsNum(a) THEN a ELSE Rat(-a.n, a.d)

NumSub(a, b) == NumAdd(a, NumNeg(b))

NumMul(a, b) ==
    IF ~IsNum(a) THEN a ELSE IF ~IsNum(b) THEN b
    ELSE Rat(a.n * b.n, a.d * b.d)

NumDiv(a, b) ==
    IF ~IsNum(a) THEN a ELSE IF ~IsNum(b) THEN b
    ELSE IF b.n = 0 THEN ZeroDivisionError
    ELSE Rat(a.n * b.d, a.d * b.n)

\* Python's x ** e for an integer x and an integer e: 0 ** 0 is 1, a negative
\* power of a nonzero x is the reciprocal, a negative power of 0 raises.
RECURSIVE IntPow(_, _)
IntPow(x, e) == IF e = 0 THEN 1 ELSE x * IntPow(x, e - 1)

Pow(x, e) ==
    IF e >= 0 THEN Int2Rat(IntPow(x, e))
    ELSE IF x = 0 THEN ZeroDivisionError
    ELSE Rat(1, IntPow(x, 0 - e))

\* ---------------------------------------------------------------- terms

Coef(t) == t[1]
DegX(t) == t[2][1]
DegY(t) == t[2][2]
Term(c, dx, dy) == <<c, <<dx, dy>>>>

\* ------------------------------------------- Polynome2D: pure computations

ValueErrorDegree == "ValueError: degre depasse le degre maximal"
ValueErrorMismatch == "ValueError: les polynomes doivent avoir le meme degre"

\* _validate_coefficients: "ok" when the loop ends and the list is returned,
\* or the ValueError raised at the first term with deg_x > degree or
\* deg_y > degree.
RECURSIVE ValidateFrom(_, _, _)
ValidateFrom(coefficients, degree, i) ==
    IF i > Len(coefficients) THEN "ok"
    ELSE IF DegX(coefficients[i]) > degree \/ DegY(coefficients[i]) > degree
         THEN ValueErrorDegree
         ELSE ValidateFrom(coefficients, degree, i + 1)

\* A validation that looks at deg_x only.
RECURSIVE ValidateDegXFrom(_, _, _)
ValidateDegXFrom(coefficients, degree, i) ==
    IF i > Len(coefficients) THEN "ok"
    ELSE IF DegX(coefficients[i]) > degree THEN ValueErrorDegree
         ELSE ValidateDegXFrom(coefficients, degree, i + 1)

ValidateDegX(coefficients, degree) == ValidateDegXFrom(coefficients, degree, 1)

\* A validation that also rejects a term at exactly the degree.
RECURSIVE ValidateBelowFrom(_, _, _)
ValidateBelowFrom(coefficients, degree, i) ==
    IF i > Len(coefficients) THEN "ok"
    ELSE IF DegX(coefficients[i]) >= degree \/ DegY(coefficients[i]) >= degree
         THEN ValueErrorDegree
         ELSE ValidateBelowFrom(coefficients, degree, i + 1)

ValidateBelow(coefficients, degree) == ValidateBelowFrom(coefficients, degree, 1)

ValidateCoefficients(coefficients, degree) == ValidateFrom(coefficients, degree, 1)

\* One term of eval's sum: coef * (x ** deg_x) * (y ** deg_y).
TermValue(t, x, y) ==
    NumMul(NumMul(Int2Rat(Coef(t)), Pow(x, DegX(t))), Pow(y, DegY(t)))

\* eval: the loop `result += ...` from result = 0, left to right.
RECURSIVE EvalFrom(_, _, _, _, _)
EvalFrom(coefficients, x, y, i, result) ==
    IF i > Len(coefficients) \/ ~IsNum(result) THEN result
    ELSE EvalFrom(coefficients, x, y, i + 1,
                  NumAdd(result, TermValue(coefficients[i], x, y)))

Eval(coefficients, x, y) == EvalFrom(coefficients, x, y, 1, Int2Rat(0))

\* gradient: the pair <<grad_x, grad_y>>, or <<the exception a power raised>>.
RECURSIVE GradientFrom(_, _, _, _, _, _)
GradientFrom(coefficients, x, y, i, grad_x, grad_y) ==
    IF i > Len(coefficients) THEN <<grad_x, grad_y>>
    ELSE LET t == coefficients[i]
             gx == IF DegX(t) > 0
                   THEN NumAdd(grad_x,
                          NumMul(NumMul(Int2Rat(Coef(t) * DegX(t)), Pow(x, DegX(t) - 1)),
                                 Pow(y, DegY(t))))
                   ELSE grad_x
             gy == IF DegY(t) > 0
                   THEN NumAdd(grad_y,
                          NumMul(NumMul(Int2Rat(Coef(t) * DegY(t)), Pow(x, DegX(t))),
                                 Pow(y, DegY(t) - 1)))
                   ELSE grad_y
         IN  IF ~IsNum(gx) THEN <<gx>>
             ELSE IF ~IsNum(gy) THEN <<gy>>
             ELSE GradientFrom(coefficients, x, y, i + 1, gx, gy)

Gradient(coefficients, x, y) ==
    GradientFrom(coefficients, x, y, 1, Int2Rat(0), Int2Rat(0))

\* The inner scan of __add__, __sub__ and __mul__: the index of the first term
\* of new_coeffs with exponents (deg_x, deg_y), 0 when there is none.
RECURSIVE FirstMatchFrom(_, _, _, _)
FirstMatchFrom(new_coeffs, deg_x, deg_y, i) ==
    IF i > Len(new_coeffs) THEN 0
    ELSE IF DegX(new_coeffs[i]) = deg_x /\ DegY(new_coeffs[i]) = deg_y THEN i
    ELSE FirstMatchFrom(new_coeffs, deg_x, deg_y, i + 1)

FirstMatch(new_coeffs, deg_x, deg_y) == FirstMatchFrom(new_coeffs, deg_x, deg_y, 1)

\* A loop body that overwrites the matching term instead of adding into it.
MergeTermOverwrite(new_coeffs, coef, deg_x, deg_y) ==
    LET i == FirstMatch(new_coeffs, deg_x, deg_y)
    IN  IF i # 0
        THEN [new_coeffs EXCEPT ![i] = Term(coef, deg_x, deg_y)]
        ELSE Append(new_coeffs, Term(coef, deg_x, deg_y))

\* One pass of the outer loop body: add coef into the first matching term in
\* place, or append (coef, (deg_x, deg_y)).
MergeTerm(new_coeffs, coef, deg_x, deg_y) ==
    LET i == FirstMatch(new_coeffs, deg_x, deg_y)
    IN  IF i # 0
        THEN [new_coeffs EXCEPT ![i] = Term(Coef(new_coeffs[i]) + coef, deg_x, deg_y)]
        ELSE Append(new_coeffs, Term(coef, deg_x, deg_y))

\* The loop of __add__ over other.coefficients.
RECURSIVE AddLoop(_, _, _)
AddLoop(new_coeffs, others, k) ==
    IF k > Len(others) THEN new_coeffs
    ELSE AddLoop(MergeTerm(new_coeffs, Coef(others[k]), DegX(others[k]), DegY(others[k])),
                 others, k + 1)

\* A __sub__ loop body that adds into the matching term as __add__ does.
SubTermAdds(new_coeffs, coef, deg_x, deg_y) ==
    LET i == FirstMatch(new_coeffs, deg_x, deg_y)
    IN  IF i # 0
        THEN [new_coeffs EXCEPT ![i] = Term(Coef(new_coeffs[i]) + coef, deg_x, deg_y)]
        ELSE Append(new_coeffs, Term(-coef, deg_x, deg_y))

\* One pass of __sub__'s loop body: subtract in place, or append the negation.
SubTerm(new_coeffs, coef, deg_x, deg_y) ==
    LET i == FirstMatch(new_coeffs, deg_x, deg_y)
    IN  IF i # 0
        THEN [new_coeffs EXCEPT ![i] = Term(Coef(new_coeffs[i]) - coef, deg_x, deg_y)]
        ELSE Append(new_coeffs, Term(-coef, deg_x, deg_y))

\* The loop of __sub__ over other.coefficients.
RECURSIVE SubLoop(_, _, _)
SubLoop(new_coeffs, others, k) ==
    IF k > Len(others) THEN new_coeffs
    ELSE SubLoop(SubTerm(new_coeffs, Coef(others[k]), DegX(others[k]), DegY(others[k])),
                 others, k + 1)

\* A keep test that drops the product terms at exactly the degree.
KeepProductStrict(new_deg_x, new_deg_y, degree) ==
    new_deg_x < degree /\ new_deg_y < degree

\* The test of __mul__ that keeps a product term.
KeepProduct(new_deg_x, new_deg_y, degree) ==
    new_deg_x <= degree /\ new_deg_y <= degree

\* The double loop of __mul__: term i of self against term k of other.
RECURSIVE MulLoop(_, _, _, _, _, _)
MulLoop(new_coeffs, selfs, others, degree, i, k) ==
    IF i > Len(selfs) THEN new_coeffs
    ELSE IF k > Len(others) THEN MulLoop(new_coeffs, selfs, others, degree, i + 1, 1)
    ELSE LET new_coef == Coef(selfs[i]) * Coef(others[k])
             new_deg_x == DegX(selfs[i]) + DegX(others[k])
             new_deg_y == DegY(selfs[i]) + DegY(others[k])
         IN  MulLoop(IF KeepProduct(new_deg_x, new_deg_y, degree)
                     THEN MergeTerm(new_coeffs, new_coef, new_deg_x, new_deg_y)
                     ELSE new_coeffs,
                     selfs, others, degree, i, k + 1)

\* The sort key of __repr__, (deg_x, deg_y), compared as Python compares tuples.
KeyLess(s, t) ==
    DegX(s) < DegX(t) \/ (DegX(s) = DegX(t) /\ DegY(s) < DegY(t))

\* sorted(..., key=...): a stable sort into a new list.  Insert puts t after
\* every term whose key is not greater than its own.
RECURSIVE Insert(_, _)
Insert(sortedSeq, t) ==
    IF sortedSeq = <<>> THEN <<t>>
    ELSE IF KeyLess(t, Head(sortedSeq)) THEN <<t>> \o sortedSeq
    ELSE <<Head(sortedSeq)>> \o Insert(Tail(sortedSeq), t)

RECURSIVE SortedFrom(_, _, _)
SortedFrom(coefficients, i, acc) ==
    IF i > Len(coefficients) THEN acc
    ELSE SortedFrom(coefficients, i + 1, Insert(acc, coefficients[i]))

Sorted(coefficients) == SortedFrom(coefficients, 1, <<>>)

\* The f-string of one term.
FormatTerm(t) ==
    ToString(Coef(t)) \o " * x^" \o ToString(DegX(t)) \o " * y^" \o ToString(DegY(t))

\* The test of __repr__ that lists a term.
\* A filter that lists every term.
ListedAll(t) == TRUE

Listed(t) == Coef(t) # 0

\* The list `terms` of __repr__: the formatted listed terms of the sorted list.
RECURSIVE ReprTerms(_, _)
ReprTerms(sortedSeq, i) ==
    IF i > Len(sortedSeq) THEN <<>>
    ELSE (IF Listed(sortedSeq[i]) THEN <<FormatTerm(sortedSeq[i])>> ELSE <<>>)
         \o ReprTerms(sortedSeq, i + 1)

\* " + ".join(terms)
RECURSIVE Join(_, _)
Join(terms, i) ==
    IF i > Len(terms) THEN ""
    ELSE IF i = Len(terms) THEN terms[i]
    ELSE terms[i] \o " + " \o Join(terms, i + 1)

\* __repr__
Repr(coefficients) ==
    LET terms == ReprTerms(Sorted(coefficients), 1)
    IN  IF terms # <<>> THEN Join(terms, 1) ELSE "0"

\* np.log(b/a) for integers a and b: the division raises when a = 0.
NpLog(b, a) ==
    LET q == NumDiv(Int2Rat(b), Int2Rat(a))
    IN  IF ~IsNum(q) THEN q
        ELSE IF q = Int2Rat(1) THEN Int2Rat(0)
        ELSE Transcendental

\* The contribution of one term to an integral along one axis: `deg` is the
\* exponent of the integration axis, `fixed ** other_deg` the factor of the
\* other axis, [lo, hi] the interval.  Skipped when neither branch is taken.
TermIntegral(coef, deg, other_deg, lo, hi, fixed) ==
    IF deg >= 0
    THEN IF deg # -1
         THEN NumDiv(NumMul(NumMul(Int2Rat(coef), Pow(fixed, other_deg)),
                            NumSub(Pow(hi, deg + 1), Pow(lo, deg + 1))),
                     Int2Rat(deg + 1))
         ELSE NumMul(NumMul(Int2Rat(coef), Pow(fixed, other_deg)), NpLog(hi, lo))
    ELSE Skipped

\* integrer_x: the loop `integral += ...` from integral = 0.
RECURSIVE IntegrerXFrom(_, _, _, _, _, _)
IntegrerXFrom(coefficients, a, b, y_value, i, integral) ==
    IF i > Len(coefficients) \/ ~IsNum(integral) THEN integral
    ELSE LET t == coefficients[i]
             c == TermIntegral(Coef(t), DegX(t), DegY(t), a, b, y_value)
         IN  IntegrerXFrom(coefficients, a, b, y_value, i + 1,
                           IF c = Skipped THEN integral ELSE NumAdd(integral, c))

IntegrerX(coefficients, a, b, y_value) ==
    IntegrerXFrom(coefficients, a, b, y_value, 1, Int2Rat(0))

\* integrer_y: the same loop along y.
RECURSIVE IntegrerYFrom(_, _, _, _, _, _)
IntegrerYFrom(coefficients, c, d, x_value, i, integral) ==
    IF i > Len(coefficients) \/ ~IsNum(integral) THEN integral
    ELSE LET t == coefficients[i]
             v == TermIntegral(Coef(t), DegY(t), DegX(t), c, d, x_value)
         IN  IntegrerYFrom(coefficients, c, d, x_value, i + 1,
                           IF v = Skipped THEN integral ELSE NumAdd(integral, v))

\* An integrer_y that integrates along x.
IntegrerYAlongX(coefficients, c, d, x_value) == IntegrerX(coefficients, c, d, x_value)

IntegrerY(coefficients, c, d, x_value) ==
    IntegrerYFrom(coefficients, c, d, x_value, 1, Int2Rat(0))

\* ------------------------------------------------------- objects and names

\* The names that hold Polynome2D objects: the module global `poly`, a caller's
\* two constructed polynomials, the result res of a call on them, and the
\* result res2 of a call on res.  A caller binds each name once.
RegOrder == <<"poly", "self", "other", "res", "res2">>
Regs == {RegOrder[k] : k \in DOMAIN RegOrder}

\* One list per name, and one more for the list a call builds.
ListIds == 1..(Len(RegOrder) + 1)

\* A name bound to no object.
Unbound == [coefficients |-> 0, degree |-> 0]

IsBound(obj) == obj.coefficients # 0

\* Object identity matters only up to renaming: the list of the object bound
\* to a name is numbered by the position of the name, and the list a call
\* builds has the number after the last name until the result is bound.
Home(r) == CHOOSE k \in DOMAIN RegOrder : RegOrder[k] = r

FreshId == Len(RegOrder) + 1

\* The terms of the object bound to r.
Coefficients(r) == heap[reg[r].coefficients]

\* __init__: the object, or Unbound when _validate_coefficients raises.
Polynome2D(h, id, degree) ==
    IF ValidateCoefficients(h[id], degree) = "ok"
    THEN [coefficients |-> id, degree |-> degree]
    ELSE Unbound

\* new_coeffs = self.coefficients without .copy(): the same list.
ListAlias(h, src) == <<src, h>>

\* list.copy(): a new list with the same terms; <<id of the copy, heap>>.
ListCopy(h, src) ==
    LET id == FreshId IN <<id, [h EXCEPT ![id] = h[src]]>>

\* [] : a new empty list.
ListNew(h) ==
    LET id == FreshId IN <<id, [h EXCEPT ![id] = <<>>]>>

\* ------------------------------------------------------------ the record

\* op: the method; a, b: the names of self and other; input: the list handed to
\* the constructor; args: the numeric arguments; outcome: "ok" or the exception;
\* obj, value, text: the object, the number(s) or the string returned;
NoCall ==
    [op |-> "none", a |-> "none", b |-> "none", input |-> <<>>, args |-> <<>>,
     outcome |-> "none", obj |-> Unbound, value |-> <<>>, text |-> ""]

Call(op, a, b, args, outcome) ==
    [NoCall EXCEPT !.op = op, !.a = a, !.b = b, !.args = args, !.outcome = outcome]

\* How a value-returning call ended.
Outcome(v) == IF IsNum(v) THEN "ok" ELSE v.kind

\* -------------------------------------------------------------- inputs

Coefs == (0 - MaxCoef)..MaxCoef
Exps == (0 - MaxNorm)..MaxNorm
Degrees == 0..MaxDegree
Points == (0 - MaxPoint)..MaxPoint
Bounds == 0..MaxPoint

ListsOver(terms) == UNION {[1..n -> terms] : n \in 0..MaxLen}

\* The lists handed to the constructor of a polynomial that is only read:
\* every sign of coefficient and exponent, duplicate pairs, exponents above
\* the degree.
InputTerms ==
    {t \in Coefs \X (Exps \X Exps) : Abs(DegX(t)) + Abs(DegY(t)) <= MaxNorm}

InputLists == ListsOver(InputTerms)

\* The lists handed to the constructor of an operand of +, - and *: positive
\* coefficients (the operations make the zero and negative ones).
OperandLists == ListsOver({t \in InputTerms : Coef(t) > 0})

\* The names a caller constructs into, and the names its results are bound to.
Operands == {"self", "other"}
Results == {"res", "res2"}
BinOps == {"add", "sub", "mul"}

\* res = self op b and res2 = res op b: the name of self in the call bound to dst.
SelfOf(dst) == IF dst = "res" THEN "self" ELSE "res"


\* -------------------------------------------------------------- actions

Unset == [kind |-> "unset", n |-> 0, d |-> 1]

Init ==
    /\ heap = [i \in ListIds |-> <<>>]
    /\ reg = [r \in Regs |-> Unbound]
    /\ last = NoCall
    /\ made = [r \in Results |-> <<>>]
    /\ pc = "construct"
    /\ integral_result_x = Unset
    /\ integral_result_y = Unset

\* r = Polynome2D(coefficients, degree): the list handed in is stored itself.
\* When __init__ raises, the assignment does not happen.
Bind(r, coefficients, degree) ==
    LET id == Home(r)
        h == [heap EXCEPT ![id] = coefficients]
        obj == Polynome2D(h, id, degree)
    IN  IF IsBound(obj)
        THEN /\ reg' = [reg EXCEPT ![r] = obj]
             /\ heap' = h
             /\ last' = [Call("construct", r, "none", <<degree>>, "ok")
                            EXCEPT !.input = coefficients, !.obj = reg'[r]]
        ELSE /\ last' = [Call("construct", r, "none", <<degree>>, ValueErrorDegree)
                            EXCEPT !.input = coefficients]
             /\ UNCHANGED <<heap, reg>>

coeffs1 == <<Term(3, 2, 0), Term(-4, 0, 1), Term(5, 1, 1)>>

\* poly = Polynome2D(coeffs1, degree=2)
DemoConstruct ==
    /\ pc = "construct"
    /\ Bind("poly", coeffs1, 2)
    /\ pc' = "integrer_x"
    /\ UNCHANGED <<made, integral_result_x, integral_result_y>>

\* integral_result_x = poly.integrer_x(1, 2, y_value=0)
DemoIntegrerX ==
    /\ pc = "integrer_x"
    /\ LET v == IntegrerX(Coefficients("poly"), 1, 2, 0)
       IN  /\ integral_result_x' = v
           /\ last' = [Call("integrer_x", "poly", "none", <<1, 2, 0>>, Outcome(v))
                          EXCEPT !.value = <<v>>]
    /\ pc' = "integrer_y"
    /\ UNCHANGED <<heap, reg, made, integral_result_y>>

\* integral_result_y = poly.integrer_y(0, 1, x_value=1)
DemoIntegrerY ==
    /\ pc = "integrer_y"
    /\ LET v == IntegrerY(Coefficients("poly"), 0, 1, 1)
       IN  /\ integral_result_y' = v
           /\ last' = [Call("integrer_y", "poly", "none", <<0, 1, 1>>, Outcome(v))
                          EXCEPT !.value = <<v>>]
    /\ pc' = "done"
    /\ UNCHANGED <<heap, reg, made, integral_result_x>>

\* A caller's r = Polynome2D(coefficients, degree), with a list of `lists`.
Construct(r, lists) ==
    /\ pc = "done"
    /\ ~IsBound(reg[r])
    /\ \E coefficients \in lists, degree \in Degrees : Bind(r, coefficients, degree)
    /\ UNCHANGED <<made, pc, integral_result_x, integral_result_y>>

\* The exception leaves the caller: nothing is bound.
Raise(call) ==
    /\ last' = call
    /\ UNCHANGED <<heap, reg, made>>

\* return Polynome2D(new_coeffs, self.degree), and the caller's dst = ...
Return(op, dst, b, h, new_coeffs, degree) ==
    LET obj == Polynome2D(h, new_coeffs, degree)
        \* the list of the result takes the number of the name it is bound to
        settled == IF new_coeffs = FreshId
                   THEN [obj EXCEPT !.coefficients = Home(dst)]
                   ELSE obj
    IN  IF IsBound(obj)
        THEN /\ reg' = [reg EXCEPT ![dst] = settled]
             /\ heap' = IF new_coeffs = FreshId
                        THEN [h EXCEPT ![Home(dst)] = h[FreshId], ![FreshId] = <<>>]
                        ELSE h
             /\ last' = [Call(op, SelfOf(dst), b, <<>>, "ok") EXCEPT !.obj = settled]
             /\ made' = [made EXCEPT ![dst] = <<op, SelfOf(dst), b>>]
        ELSE /\ reg' = reg
             /\ heap' = [h EXCEPT ![FreshId] = <<>>]
             /\ last' = Call(op, SelfOf(dst), b, <<>>, ValueErrorDegree)
             /\ made' = made

\* A test that lets a call through when self has the smaller degree.
DegreeMismatchOneWay(self_obj, other_obj) == self_obj.degree > other_obj.degree

\* The test `self.degree != other.degree` that opens __add__, __sub__, __mul__.
DegreeMismatch(self_obj, other_obj) == self_obj.degree # other_obj.degree

\* A caller's dst = a op b with a = SelfOf(dst): both operands are bound, dst is
\* not yet.
CanCall(dst, b) ==
    /\ pc = "done"
    /\ IsBound(reg[SelfOf(dst)]) /\ IsBound(reg[b])
    /\ ~IsBound(reg[dst])

\* dst = a + b
Add(dst, b) ==
    /\ CanCall(dst, b)
    /\ LET a == SelfOf(dst) IN
       IF DegreeMismatch(reg[a], reg[b])
       THEN Raise(Call("add", a, b, <<>>, ValueErrorMismatch))
       ELSE LET cp == ListCopy(heap, reg[a].coefficients)
                new_coeffs == cp[1]
                h == [cp[2] EXCEPT ![new_coeffs] =
                         AddLoop(cp[2][new_coeffs], cp[2][reg[b].coefficients], 1)]
            IN  Return("add", dst, b, h, new_coeffs, reg[a].degree)
    /\ UNCHANGED <<pc, integral_result_x, integral_result_y>>

\* dst = a - b
Sub(dst, b) ==
    /\ CanCall(dst, b)
    /\ LET a == SelfOf(dst) IN
       IF DegreeMismatch(reg[a], reg[b])
       THEN Raise(Call("sub", a, b, <<>>, ValueErrorMismatch))
       ELSE LET cp == ListCopy(heap, reg[a].coefficients)
                new_coeffs == cp[1]
                h == [cp[2] EXCEPT ![new_coeffs] =
                         SubLoop(cp[2][new_coeffs], cp[2][reg[b].coefficients], 1)]
            IN  Return("sub", dst, b, h, new_coeffs, reg[a].degree)
    /\ UNCHANGED <<pc, integral_result_x, integral_result_y>>

\* dst = a * b
Mul(dst, b) ==
    /\ CanCall(dst, b)
    /\ LET a == SelfOf(dst) IN
       IF DegreeMismatch(reg[a], reg[b])
       THEN Raise(Call("mul", a, b, <<>>, ValueErrorMismatch))
       ELSE LET nw == ListNew(heap)
                new_coeffs == nw[1]
                h == [nw[2] EXCEPT ![new_coeffs] =
                         MulLoop(nw[2][new_coeffs], heap[reg[a].coefficients],
                                 heap[reg[b].coefficients], reg[a].degree, 1, 1)]
            IN  Return("mul", dst, b, h, new_coeffs, reg[a].degree)
    /\ UNCHANGED <<pc, integral_result_x, integral_result_y>>

\* A call that returns a number, or raises.
Returned(op, r, args, v) ==
    /\ last' = [Call(op, r, "none", args, Outcome(v))
                   EXCEPT !.value = IF IsNum(v) THEN <<v>> ELSE <<>>]
    /\ UNCHANGED <<heap, reg, made, pc, integral_result_x, integral_result_y>>

\* r.eval(x, y)
CallEval(r) ==
    /\ pc = "done" /\ IsBound(reg[r])
    /\ \E x \in Points, y \in Points :
          Returned("eval", r, <<x, y>>, Eval(Coefficients(r), x, y))

\* r.gradient(x, y)
CallGradient(r) ==
    /\ pc = "done" /\ IsBound(reg[r])
    /\ \E x \in Points, y \in Points :
          LET g == Gradient(Coefficients(r), x, y)
          IN  last' = IF Len(g) = 2
                      THEN [Call("gradient", r, "none", <<x, y>>, "ok") EXCEPT !.value = g]
                      ELSE Call("gradient", r, "none", <<x, y>>, g[1].kind)
    /\ UNCHANGED <<heap, reg, made, pc, integral_result_x, integral_result_y>>

\* repr(r)
CallRepr(r) ==
    /\ pc = "done" /\ IsBound(reg[r])
    /\ last' = [Call("repr", r, "none", <<>>, "ok") EXCEPT !.text = Repr(Coefficients(r))]
    /\ UNCHANGED <<heap, reg, made, pc, integral_result_x, integral_result_y>>

\* r.integrer_x(a, b, y_value)
CallIntegrerX(r) ==
    /\ pc = "done" /\ IsBound(reg[r])
    /\ \E a \in Bounds, b \in Bounds, y_value \in Points :
          Returned("integrer_x", r, <<a, b, y_value>>,
                   IntegrerX(Coefficients(r), a, b, y_value))

\* r.integrer_y(c, d, x_value)
CallIntegrerY(r) ==
    /\ pc = "done" /\ IsBound(reg[r])
    /\ \E c \in Bounds, d \in Bounds, x_value \in Points :
          Returned("integrer_y", r, <<c, d, x_value>>,
                   IntegrerY(Coefficients(r), c, d, x_value))

Next ==
    \/ DemoConstruct
    \/ DemoIntegrerX
    \/ DemoIntegrerY
    \/ \E r \in Operands : Construct(r, OperandLists)
    \/ \E dst \in Results, b \in Operands : Add(dst, b)
    \/ \E dst \in Results, b \in Operands : Sub(dst, b)
    \/ \E dst \in Results, b \in Operands : Mul(dst, b)

Spec == Init /\ [][Next]_vars

\* The module is loaded, one polynomial is constructed and read.
NextRead ==
    \/ DemoConstruct
    \/ DemoIntegrerX
    \/ DemoIntegrerY
    \/ Construct("self", InputLists)
    \/ CallEval("self")
    \/ CallGradient("self")
    \/ CallRepr("self")
    \/ CallIntegrerX("self")
    \/ CallIntegrerY("self")

SpecRead == Init /\ [][NextRead]_vars

\* ---------------------------------------------------------------- claims

PointPairs == Points \X Points

\* The call of op that made the object bound to the result name r has just
\* returned: the operands are bound as they were during the call.
Made(r, op) ==
    /\ IsBound(reg[r]) /\ Len(made[r]) = 3 /\ made[r][1] = op
    /\ last.op = op /\ last.outcome = "ok" /\ last.obj = reg[r]

\* The terms of the operands of the call that made r.
SelfTerms(r) == Coefficients(made[r][2])
OtherTerms(r) == Coefficients(made[r][3])

HasDuplicate(coefficients) ==
    \E i, j \in DOMAIN coefficients : i < j /\ coefficients[i][2] = coefficients[j][2]

HasZero(coefficients) == \E i \in DOMAIN coefficients : Coef(coefficients[i]) = 0

HasNegativeExp(coefficients) ==
    \E i \in DOMAIN coefficients : DegX(coefficients[i]) < 0 \/ DegY(coefficients[i]) < 0

\* The sum of the coefficients a list stores at the exponents e = <<i, j>>.
RECURSIVE CoefAt(_, _, _)
CoefAt(coefficients, e, k) ==
    IF k > Len(coefficients) THEN 0
    ELSE (IF coefficients[k][2] = e THEN Coef(coefficients[k]) ELSE 0)
         + CoefAt(coefficients, e, k + 1)

\* The sum of coef1 * coef2 over the pairs (term1 of P, term2 of Q) whose
\* exponents add up to e.
RECURSIVE ProductAt(_, _, _, _, _)
ProductAt(P, Q, e, m, n) ==
    IF m > Len(P) THEN 0
    ELSE IF n > Len(Q) THEN ProductAt(P, Q, e, m + 1, 1)
    ELSE (IF <<DegX(P[m]) + DegX(Q[n]), DegY(P[m]) + DegY(Q[n])>> = e
          THEN Coef(P[m]) * Coef(Q[n]) ELSE 0)
         + ProductAt(P, Q, e, m, n + 1)

\* The exponent pairs of the cross product of P and Q.
CrossPairs(P, Q) ==
    {<<DegX(P[m]) + DegX(Q[n]), DegY(P[m]) + DegY(Q[n])>> : m \in DOMAIN P, n \in DOMAIN Q}

StoredPairs(coefficients) == {coefficients[k][2] : k \in DOMAIN coefficients}

Within(e, degree) == e[1] <= degree /\ e[2] <= degree

\* C1: after r = P + Q, (P+Q).eval(x, y) is P.eval(x, y) + Q.eval(x, y) at every
\* point, whatever duplicate pairs and zero coefficients P and Q store (both
\* sides raise at the same points).
C1_Additivity ==
    \A r \in Results : Made(r, "add") =>
        \A pt \in PointPairs :
            Eval(Coefficients(r), pt[1], pt[2])
              = NumAdd(Eval(SelfTerms(r), pt[1], pt[2]), Eval(OtherTerms(r), pt[1], pt[2]))

\* C1 witness: res = self - self stores two terms with zero coefficients,
\* other stores a duplicate pair, and res2 = res + other has returned, both
\* terms of other merged into one term of res.
C1_Witness ==
    /\ made["res"] = <<"sub", "self", "self">>
    /\ Made("res2", "add") /\ made["res2"] = <<"add", "res", "other">>
    /\ Len(Coefficients("res")) = 2 /\ HasZero(Coefficients("res"))
    /\ HasDuplicate(Coefficients("other"))
    /\ StoredPairs(Coefficients("other")) \subseteq StoredPairs(Coefficients("res"))

\* The parts of C2 that hold as claimed: a call of __mul__ on operands of equal
\* degree d never raises for an exponent, no stored term of the result exceeds
\* d, and at every exponent pair within d the result's coefficients sum to the
\* sum of the products of the operand terms whose exponents add up to it.
C2_Truncated ==
    /\ last.op = "mul" => last.outcome # ValueErrorDegree
    /\ \A r \in Results : Made(r, "mul") =>
          LET P == SelfTerms(r)
              Q == OtherTerms(r)
              d == reg[r].degree
          IN  /\ \A e \in StoredPairs(Coefficients(r)) : Within(e, d)
              /\ \A e \in StoredPairs(Coefficients(r)) \cup CrossPairs(P, Q) :
                    Within(e, d) => CoefAt(Coefficients(r), e, 1) = ProductAt(P, Q, e, 1, 1)

NoTruncation(r) ==
    \A e \in CrossPairs(SelfTerms(r), OtherTerms(r)) : Within(e, reg[r].degree)

C3_DegreeInvariant ==
    /\ \A r \in Regs : IsBound(reg[r]) =>
          \A k \in DOMAIN Coefficients(r) : Within(Coefficients(r)[k][2], reg[r].degree)
    /\ \A r \in Results : (IsBound(reg[r]) /\ Len(made[r]) = 3) =>
          /\ reg[r].degree = reg[made[r][2]].degree
          /\ reg[r].degree = reg[made[r][3]].degree

\* C3 witness: res2 = (self + other) * other has returned, a cross-product
\* term was dropped and a stored term of res2 sits at exactly the degree.
C3_Witness ==
    /\ made["res"] = <<"add", "self", "other">>
    /\ Made("res2", "mul") /\ made["res2"][3] = "other"
    /\ ~NoTruncation("res2")
    /\ \E k \in DOMAIN Coefficients("res2") :
          DegX(Coefficients("res2")[k]) = reg["res2"].degree

Exceeds(t, degree) == DegX(t) > degree \/ DegY(t) > degree

\* C4: Polynome2D(coefficients, degree) raises, binding no object, exactly
\* when some term handed in has deg_x > degree or deg_y > degree; otherwise it
\* stores the very sequence handed in, with the degree.
C4_Construct ==
    last.op = "construct" =>
        LET d == last.args[1]
            exceeds == \E k \in DOMAIN last.input : Exceeds(last.input[k], d)
        IN  /\ last.outcome \in {"ok", ValueErrorDegree}
            /\ (last.outcome = ValueErrorDegree) <=> exceeds
            /\ exceeds => (~IsBound(reg[last.a]) /\ last.obj = Unbound)
            /\ ~exceeds =>
                  /\ IsBound(reg[last.a]) /\ last.obj = reg[last.a]
                  /\ Coefficients(last.a) = last.input
                  /\ reg[last.a].degree = d

\* C4 witness: poly stores coeffs1 as handed in, one term at exactly the
\* degree, and a construction has just raised for its second term, whose
\* deg_y alone exceeds the degree and whose first term has a negative exponent.
C4_Witness ==
    /\ IsBound(reg["poly"]) /\ Coefficients("poly") = coeffs1
    /\ last.op = "construct" /\ last.outcome = ValueErrorDegree
    /\ ~IsBound(reg["self"])
    /\ Len(last.input) = 2
    /\ ~Exceeds(last.input[1], last.args[1]) /\ DegX(last.input[1]) < 0
    /\ DegX(last.input[2]) <= last.args[1] /\ DegY(last.input[2]) > last.args[1]

\* C5: a call of +, - or * on operands whose degrees differ raises the
\* mismatch error and changes nothing: no object is returned or bound.
C5_Mismatch ==
    [][(last'.op \in BinOps /\ reg[last'.a].degree # reg[last'.b].degree) =>
          /\ last'.outcome = ValueErrorMismatch
          /\ last'.obj = Unbound
          /\ reg' = reg /\ heap' = heap /\ made' = made]_vars

\* C5 witness: self - other has just raised the mismatch error on two
\* polynomials with empty term lists.
C5_Witness ==
    /\ last.op = "sub" /\ last.a = "self" /\ last.b = "other"
    /\ last.outcome = ValueErrorMismatch
    /\ Coefficients("self") = <<>> /\ Coefficients("other") = <<>>
    /\ reg["self"].degree # reg["other"].degree
    /\ ~IsBound(reg["res"])

C7_Frame ==
    [][last'.op \in BinOps =>
          /\ \A r \in Regs : IsBound(reg[r]) =>
                /\ reg'[r] = reg[r]
                /\ heap'[reg[r].coefficients] = heap[reg[r].coefficients]
          /\ last'.outcome = "ok" =>
                \A r \in Regs : IsBound(reg[r]) =>
                    last'.obj.coefficients # reg[r].coefficients]_vars

\* C7 witness: res = self + self has returned, self storing two terms, each
\* doubled in res.
C7_Witness ==
    /\ Made("res", "add") /\ made["res"] = <<"add", "self", "self">>
    /\ Len(Coefficients("self")) = 2 /\ ~HasDuplicate(Coefficients("self"))
    /\ \A k \in DOMAIN Coefficients("res") :
          Coef(Coefficients("res")[k]) = 2 * Coef(Coefficients("self")[k])

\* C8 as claimed: the usage example's poly.integrer_y(0, 1, x_value=1) on
\* 3x^2 - 4y + 5xy is -1.5.
C8_Original == pc = "done" => integral_result_y = Rat(-3, 2)

\* C8 amended: it is 3.5 (3x^2 contributes 3 and -4y contributes -2).
C8_DemoIntegral == pc = "done" => integral_result_y = Rat(7, 2)

\* C8 witness: the usage example has run to its end on coeffs1.
C8_Witness ==
    /\ pc = "done" /\ last.op = "integrer_y" /\ last.a = "poly"
    /\ last.args = <<0, 1, 1>> /\ last.outcome = "ok"
    /\ Coefficients("poly") = coeffs1 /\ reg["poly"].degree = 2

\* C9: integrer_x(a, b, y_value) with a = 0 on a polynomial that stores a term
\* with deg_x = -1 signals a failure instead of returning a number, and so
\* does integrer_y(c, d, x_value) with c = 0 on a term with deg_y = -1.
C9_LogBranch ==
    /\ (last.op = "integrer_x" /\ last.args[1] = 0
          /\ \E k \in DOMAIN Coefficients(last.a) : DegX(Coefficients(last.a)[k]) = -1)
        => last.outcome # "ok"
    /\ (last.op = "integrer_y" /\ last.args[1] = 0
          /\ \E k \in DOMAIN Coefficients(last.a) : DegY(Coefficients(last.a)[k]) = -1)
        => last.outcome # "ok"

\* The order of the claim on exponent pairs.
LexLE(e, f) == e[1] < f[1] \/ (e[1] = f[1] /\ e[2] <= f[2])

\* "<coef> * x^<ex> * y^<ey>"
Shown(t) ==
    ToString(t[1]) \o " * x^" \o ToString(t[2][1]) \o " * y^" \o ToString(t[2][2])

\* The terms of coefficients at the indices f[1], ..., f[n], shown and joined
\* by " + " from the k-th on.
RECURSIVE Joined(_, _, _)
Joined(coefficients, f, k) ==
    IF k = Len(f) THEN Shown(coefficients[f[k]])
    ELSE Shown(coefficients[f[k]]) \o " + " \o Joined(coefficients, f, k + 1)

\* text lists exactly the terms of coefficients with a nonzero coefficient,
\* each once, in ascending order of the exponent pairs; "0" when there is none.
Renders(text, coefficients) ==
    LET nz == {k \in DOMAIN coefficients : coefficients[k][1] # 0}
        n == Cardinality(nz)
    IN  IF n = 0 THEN text = "0"
        ELSE \E f \in [1..n -> nz] :
               /\ \A i, j \in 1..n : i # j => f[i] # f[j]
               /\ \A i \in 1..(n - 1) :
                     LexLE(coefficients[f[i]][2], coefficients[f[i + 1]][2])
               /\ text = Joined(coefficients, f, 1)

\* C10: repr lists exactly the stored terms with a nonzero coefficient, in
\* ascending order of (deg_x, deg_y), formatted and joined by " + ", or is "0"
\* when there is none, and leaves the stored terms as they were.
C10_Render ==
    [][last'.op = "repr" =>
          /\ Renders(last'.text, Coefficients(last'.a))
          /\ heap' = heap /\ reg' = reg]_vars

\* C10 witness: repr has returned, on two stored terms with nonzero
\* coefficients stored in descending order, the second term and then the first.
C10_Witness ==
    /\ last.op = "repr" /\ last.outcome = "ok"
    /\ LET c == Coefficients(last.a)
       IN  /\ Len(c) = 2 /\ c[1][1] # 0 /\ c[2][1] # 0
           /\ c[2][2] # c[1][2] /\ LexLE(c[2][2], c[1][2])
           /\ last.text = Shown(c[2]) \o " + " \o Shown(c[1])

====
